---- MODULE Spec2Model ----
(***************************************************************************)
(* Model of src/Dashboard/dashboard.py: a linear script that ingests a     *)
(* pre-joined order-line table, filters it by a date range and hands the   *)
(* filtered working set to a fixed set of aggregators.                     *)
(*                                                                         *)
(* Two specifications are given.                                           *)
(*   ScriptSpec  the module-level script from its first statement          *)
(*               (lines 11-106), where the run ends.                       *)
(*   Spec        the aggregation core (lines 108-209) applied to an        *)
(*               ingested table df drawn from a bounded set of tables;     *)
(*               RevenueSpec, RfmSpec and FreightSpec are the same core on *)
(*               tables that vary the columns the revenue sum, the RFM     *)
(*               computation and the freight rollup read.                  *)
(*                                                                         *)
(* Identifiers and category labels are small integers; their order stands  *)
(* for the lexical order of the identifier strings.  Amounts are integers  *)
(* (exact arithmetic; binary floating-point rounding is not modelled).     *)
(* A timestamp is an integer number of ticks, TicksPerDay ticks to a       *)
(* calendar day.  Chart rendering and currency formatting are external     *)
(* and are not modelled.                                                   *)
(***************************************************************************)
EXTENDS Integers, Sequences, FiniteSets, TLC

\* ---------------------------------------------------------------- bounds
MaxRows == 2
MaxDay == 2

Times == {0, 1}
TicksPerDay == Cardinality(Times)
Dates == 0..MaxDay
Stamps == 0..((MaxDay + 1) * TicksPerDay - 1)
Ids == {1, 2}
Products == {1, 2, 3}
Amounts == {1, 2}

\* --------------------------------------------------------------- helpers
\* Series.dt.date / Timestamp.date(): the calendar day of a timestamp.
DateOf(ts) == ts \div TicksPerDay

\* The timestamp pandas gives a daily bin: midnight of that day.
Midnight(d) == d * TicksPerDay

Column(rows, col) == {rows[i][col] : i \in DOMAIN rows}

\* Series.sum(): 0 on an empty series.
RECURSIVE SumCol(_, _)
SumCol(rows, col) ==
    IF rows = <<>> THEN 0 ELSE Head(rows)[col] + SumCol(Tail(rows), col)

\* Series.nunique()
NUnique(rows, col) == Cardinality(Column(rows, col))

\* Series.max() / Series.min() as a set: empty for an empty series (pandas
\* gives NaN/NaT there), a singleton otherwise.
MaxOf(S) == {x \in S : \A y \in S : y <= x}
MinOf(S) == {x \in S : \A y \in S : x <= y}
The(S) == CHOOSE x \in S : TRUE

\* groupby(...) sorts the group keys (sort=True is the default).
RECURSIVE Ascending(_)
Ascending(S) ==
    IF S = {} THEN <<>>
    ELSE LET m == The(MinOf(S)) IN <<m>> \o Ascending(S \ {m})

RowsWhere(rows, col, v) == SelectSeq(rows, LAMBDA r : r[col] = v)

\* ------------------------------------------------------ the row model
BaseRow ==
    [order_id |-> 1, customer_id |-> 1, customer_unique_id |-> 1,
     customer_state |-> 1, product_id |-> 1, order_status |-> 1,
     payment_type |-> 1, price |-> 10, freight_value |-> 1,
     order_purchase_timestamp |-> 0]

\* df["total_price"] = df["price"] + df["freight_value"]
WithTotalPrice(r) ==
    [f \in (DOMAIN r) \cup {"total_price"} |->
        IF f = "total_price" THEN r.price + r.freight_value ELSE r[f]]

DeriveTotalPrice(rows) == [i \in DOMAIN rows |-> WithTotalPrice(rows[i])]

\* ------------------------------------------------- the date-range filter
\* Faulty variant: the timestamps themselves compared with the two dates (midnight
\* instants), without .dt.date.
FilterRowsByInstant(rows, s, e) ==
    SelectSeq(rows, LAMBDA r : r.order_purchase_timestamp >= Midnight(s)
                             /\ r.order_purchase_timestamp <= Midnight(e))

\* df[(df[ts].dt.date >= start_date) & (df[ts].dt.date <= end_date)]
FilterRows(rows, s, e) ==
    SelectSeq(rows, LAMBDA r : DateOf(r.order_purchase_timestamp) >= s
                             /\ DateOf(r.order_purchase_timestamp) <= e)

\* df["order_purchase_timestamp"].min().date() / .max().date()
MinDate(rows) == DateOf(The(MinOf(Column(rows, "order_purchase_timestamp"))))
MaxDate(rows) == DateOf(The(MaxOf(Column(rows, "order_purchase_timestamp"))))

\* ------------------------------------------------ daily order/revenue rollup
\* One bin of resample(rule='D', on='order_purchase_timestamp').
Bucket(rows, d) ==
    SelectSeq(rows, LAMBDA r : DateOf(r.order_purchase_timestamp) = d)

\* Faulty variant: daily bins as a groupby on the date would give them (only the
\* days that have rows, no zero-fill).
DailyBinsGroupby(rows) ==
    Ascending({DateOf(t) : t \in Column(rows, "order_purchase_timestamp")})

\* resample(rule='D'): one bin per calendar day from the day of the earliest
\* row to the day of the latest row of the frame it is given; no bin for an
\* empty frame.
DailyBins(rows) ==
    IF rows = <<>> THEN <<>>
    ELSE [i \in 1..(MaxDate(rows) - MinDate(rows) + 1) |-> MinDate(rows) + i - 1]

\* Faulty variant: "count" in place of "nunique".
DailyOrderCountRows(bucket) == Len(bucket)

\* "order_id": "nunique"
DailyOrderCount(bucket) == NUnique(bucket, "order_id")

\* Faulty variant: "first" in place of "sum".
DailyRevenueFirst(bucket) ==
    IF bucket = <<>> THEN 0 ELSE Head(bucket).total_price

\* "total_price": "sum"
DailyRevenue(bucket) == SumCol(bucket, "total_price")

create_daily_orders_df(rows) ==
    LET bins == DailyBins(rows) IN
    [i \in DOMAIN bins |->
        [order_purchase_timestamp |-> Midnight(bins[i]),
         order_count |-> DailyOrderCount(Bucket(rows, bins[i])),
         revenue |-> DailyRevenue(Bucket(rows, bins[i]))]]

\* ------------------------------------------------ freight-cost-by-product
\* df.groupby('product_id').agg({'freight_value': 'sum'}).reset_index()
FreightGroups(rows) ==
    LET keys == Ascending(Column(rows, "product_id")) IN
    [i \in DOMAIN keys |->
        [product_id |-> keys[i],
         freight_value |-> SumCol(RowsWhere(rows, "product_id", keys[i]),
                                  "freight_value")]]

Reorderings(s) ==
    {[i \in DOMAIN s |-> s[f[i]]] : f \in Permutations(DOMAIN s)}

NonIncreasing(s) ==
    \A i \in 1..(Len(s) - 1) : s[i].freight_value >= s[i + 1].freight_value

\* Faulty variant: ascending=True.
SortValuesAscending(s) ==
    {p \in Reorderings(s) :
        \A i \in 1..(Len(p) - 1) : p[i].freight_value <= p[i + 1].freight_value}

\* sort_values('freight_value', ascending=False) with the default
\* kind='quicksort', which is not stable: every descending reordering is a
\* possible outcome, the order among equal sums is not determined.
SortValuesDescending(s) == {p \in Reorderings(s) : NonIncreasing(p)}

\* The set of frames create_sum_freight_items_df may return.
create_sum_freight_items_df(rows) == SortValuesDescending(FreightGroups(rows))

\* ------------------------------------------------ customer-count-by-region
create_bystate_df(rows) ==
    LET keys == Ascending(Column(rows, "customer_state")) IN
    [i \in DOMAIN keys |->
        [customer_state |-> keys[i],
         customer_count |->
            NUnique(RowsWhere(rows, "customer_state", keys[i]), "customer_id")]]

\* ------------------------------------------------ categorical counters
\* df['order_status'].value_counts().sort_index()
OrderStatusCounts(rows) ==
    LET keys == Ascending(Column(rows, "order_status")) IN
    [i \in DOMAIN keys |->
        [order_status |-> keys[i],
         count |-> Len(RowsWhere(rows, "order_status", keys[i]))]]

\* df['payment_type'].value_counts(): a count per observed label (the order
\* of the labels in the series is not modelled).
PaymentTypeCounts(rows) ==
    [k \in Column(rows, "payment_type") |->
        Len(RowsWhere(rows, "payment_type", k))]

\* ------------------------------------------------ RFM
\* df["order_purchase_timestamp"].dt.date.max(): empty set for NaN.
RecentDate(rows) ==
    MaxOf({DateOf(t) : t \in Column(rows, "order_purchase_timestamp")})

\* Faulty variant: the customer's earliest purchase in place of the latest.
CustomerMinStamp(rows) == The(MinOf(Column(rows, "order_purchase_timestamp")))

\* "order_purchase_timestamp": "max"
CustomerMaxStamp(rows) == The(MaxOf(Column(rows, "order_purchase_timestamp")))

\* Faulty variant: "count" in place of "nunique".
FrequencyRows(rows) == Len(rows)

\* "order_id": "nunique"
Frequency(rows) == NUnique(rows, "order_id")

\* lambda x: (recent_date - x).days
Recency(recent_date, x) == The(recent_date) - x

\* Faulty variant: the subtraction evaluated once on the reference date, before the
\* per-row apply.
RfmRaisesEager(rows) == RecentDate(rows) = {}

\* The lambda raises when it is applied with recent_date = NaN; apply() on
\* an empty series never calls it.
RfmRaises(rows) ==
    Column(rows, "customer_unique_id") # {} /\ RecentDate(rows) = {}

create_rfm_df(rows) ==
    LET keys == Ascending(Column(rows, "customer_unique_id")) IN
    [i \in DOMAIN keys |->
        LET mine == RowsWhere(rows, "customer_unique_id", keys[i]) IN
        [customer_id |-> keys[i],
         frequency |-> Frequency(mine),
         monetary |-> SumCol(mine, "total_price"),
         recency |-> Recency(RecentDate(rows), DateOf(CustomerMaxStamp(mine)))]]

\* ------------------------------------------------------------------ state
VARIABLES
    pc,                    \* the statement the script is at
    current_hour,          \* datetime.now().hour
    greeting,              \* the header text
    percent_complete,      \* the progress bar's value
    bound,                 \* the module-level table names that are bound
    all_df,                \* the table read from all_data.csv
    df,                    \* the table the script works on from line 106 on
    min_date, max_date,    \* the date span of df
    start_date, end_date,  \* the selected filter range
    main_df,               \* the working set
    daily_orders_df, bystate_df, rfm_df,
    total_orders, total_revenue,
    sum_freight_items_df,
    order_status_counts, payment_type_counts

vars ==
    <<pc, current_hour, greeting, percent_complete, bound, all_df, df,
      min_date, max_date, start_date, end_date, main_df, daily_orders_df,
      bystate_df, rfm_df, total_orders, total_revenue, sum_freight_items_df,
      order_status_counts, payment_type_counts>>

header == <<current_hour, greeting, percent_complete>>
tables == <<bound, all_df>>
range == <<min_date, max_date, start_date, end_date>>
rollups == <<daily_orders_df, bystate_df, rfm_df, sum_freight_items_df>>
metrics == <<total_orders, total_revenue>>
counters == <<order_status_counts, payment_type_counts>>

\* ------------------------------------------------------- bounded inputs
\* Tables of 1..MaxRows rows over a pool of rows.
TablesOver(pool) == UNION {[1..n -> pool] : n \in 1..MaxRows}

\* Rows that differ in the order and the purchase instant.
OrderRows ==
    {[BaseRow EXCEPT !.order_id = o, !.order_status = o, !.payment_type = o,
                     !.order_purchase_timestamp = t] :
        o \in Ids, t \in Stamps}

\* Rows that differ in the purchase instant and the amount.
AmountRows ==
    {[BaseRow EXCEPT !.freight_value = f, !.order_purchase_timestamp = t] :
        f \in Amounts, t \in Stamps}

\* Rows that differ in the customer, the order and the purchase day.
CustomerRows ==
    {[BaseRow EXCEPT !.customer_unique_id = c, !.customer_id = c,
                     !.customer_state = c, !.order_id = o,
                     !.order_purchase_timestamp = Midnight(d) + TicksPerDay - 1] :
        c \in Ids, o \in Ids, d \in Dates}

\* Rows that differ in the product, the freight value and the purchase day.
ProductRows ==
    {[BaseRow EXCEPT !.product_id = p, !.freight_value = f,
                     !.order_purchase_timestamp = Midnight(d)] :
        p \in Products, f \in Amounts, d \in Dates}

\* Rows that differ in the order only.
FileRows == {[BaseRow EXCEPT !.order_id = o] : o \in Ids}

\* ------------------------------------------ the script, lines 11 to 106
Hours == 0..23
NoonHour == 12
EveningHour == 18
ProgressSteps == 100

ScriptInit ==
    /\ pc = "greeting"
    /\ current_hour \in Hours
    /\ greeting = ""
    /\ percent_complete = 0
    /\ bound = {}
    /\ all_df = <<>>
    /\ df = <<>>
    /\ min_date = 0 /\ max_date = 0 /\ start_date = 0 /\ end_date = 0
    /\ main_df = <<>>
    /\ daily_orders_df = <<>> /\ bystate_df = <<>> /\ rfm_df = <<>>
    /\ total_orders = 0 /\ total_revenue = 0
    /\ sum_freight_items_df = <<>>
    /\ order_status_counts = <<>> /\ payment_type_counts = <<>>

\* lines 11-18
Greet ==
    /\ pc = "greeting"
    /\ greeting' = IF current_hour < NoonHour THEN "Good Morning"
                   ELSE IF NoonHour <= current_hour /\ current_hour < EveningHour
                        THEN "Good Afternoon"
                        ELSE "Good Evening"
    /\ pc' = "progress"
    /\ UNCHANGED <<current_hour, percent_complete, tables, df, range, main_df,
                   rollups, metrics, counters>>

\* lines 20-23: one iteration of the progress loop
ProgressStep ==
    /\ pc = "progress"
    /\ percent_complete < ProgressSteps
    /\ percent_complete' = percent_complete + 1
    /\ UNCHANGED <<pc, current_hour, greeting, tables, df, range, main_df,
                   rollups, metrics, counters>>

\* the loop is exhausted; lines 25-93 define the functions
ProgressDone ==
    /\ pc = "progress"
    /\ percent_complete = ProgressSteps
    /\ pc' = "read_csv"
    /\ UNCHANGED <<header, tables, df, range, main_df, rollups, metrics,
                   counters>>

\* line 95: all_df = pd.read_csv("all_data.csv")
ReadCsv ==
    /\ pc = "read_csv"
    /\ \E t \in TablesOver(FileRows) : all_df' = t
    /\ bound' = bound \cup {"all_df"}
    /\ pc' = "to_datetime"
    /\ UNCHANGED <<header, df, range, main_df, rollups, metrics, counters>>

\* lines 105-106: df[column] = pd.to_datetime(df[column]).  No statement of
\* the script binds the name df: the first evaluation of df[column] raises
\* NameError and the run ends.
ParseDatetimeColumns ==
    /\ pc = "to_datetime"
    /\ pc' = IF "df" \in bound THEN "derive" ELSE "aborted"
    /\ UNCHANGED <<header, tables, df, range, main_df, rollups, metrics,
                   counters>>

ScriptNext ==
    \/ Greet
    \/ ProgressStep
    \/ ProgressDone
    \/ ReadCsv
    \/ ParseDatetimeColumns

ScriptSpec == ScriptInit /\ [][ScriptNext]_vars

\* ------------------------------- the aggregation core, lines 108 to 209
\* The statements from line 108 on, with df an ingested table (timestamp
\* columns parsed) of the given pool of rows.
CoreInit(pool) ==
    /\ pc = "derive"
    /\ current_hour = 0
    /\ greeting = "Good Morning"
    /\ percent_complete = ProgressSteps
    /\ df \in TablesOver(pool)
    /\ all_df = df
    /\ bound = {"all_df", "df"}
    /\ min_date = 0 /\ max_date = 0 /\ start_date = 0 /\ end_date = 0
    /\ main_df = <<>>
    /\ daily_orders_df = <<>> /\ bystate_df = <<>> /\ rfm_df = <<>>
    /\ total_orders = 0 /\ total_revenue = 0
    /\ sum_freight_items_df = <<>>
    /\ order_status_counts = <<>> /\ payment_type_counts = <<>>

\* line 108
DeriveTotal ==
    /\ pc = "derive"
    /\ df' = DeriveTotalPrice(df)
    /\ pc' = "bounds"
    /\ UNCHANGED <<header, tables, range, main_df, rollups, metrics, counters>>

\* lines 110-111; min() of an empty column is NaT, which has no date()
DateBounds ==
    /\ pc = "bounds"
    /\ IF df = <<>>
       THEN pc' = "aborted" /\ UNCHANGED <<min_date, max_date>>
       ELSE /\ min_date' = MinDate(df)
            /\ max_date' = MaxDate(df)
            /\ pc' = "date_input"
    /\ UNCHANGED <<header, tables, df, start_date, end_date, main_df, rollups,
                   metrics, counters>>

\* lines 113-120: the widget is given min_value and max_value and nothing
\* that orders the two dates it returns; the script checks neither.
DateInput ==
    /\ pc = "date_input"
    /\ \E s \in min_date..max_date, e \in min_date..max_date :
          start_date' = s /\ end_date' = e
    /\ pc' = "filter"
    /\ UNCHANGED <<header, tables, df, min_date, max_date, main_df, rollups,
                   metrics, counters>>

\* lines 122-123
ApplyFilter ==
    /\ pc = "filter"
    /\ main_df' = FilterRows(df, start_date, end_date)
    /\ pc' = "daily"
    /\ UNCHANGED <<header, tables, df, range, rollups, metrics, counters>>

\* line 125
CreateDailyOrders ==
    /\ pc = "daily"
    /\ daily_orders_df' = create_daily_orders_df(main_df)
    /\ pc' = "bystate"
    /\ UNCHANGED <<header, tables, df, range, main_df, bystate_df, rfm_df,
                   sum_freight_items_df, metrics, counters>>

\* line 126
CreateBystate ==
    /\ pc = "bystate"
    /\ bystate_df' = create_bystate_df(main_df)
    /\ pc' = "rfm"
    /\ UNCHANGED <<header, tables, df, range, main_df, daily_orders_df, rfm_df,
                   sum_freight_items_df, metrics, counters>>

\* line 127
CreateRfm ==
    /\ pc = "rfm"
    /\ IF RfmRaises(main_df)
       THEN pc' = "aborted" /\ UNCHANGED rfm_df
       ELSE rfm_df' = create_rfm_df(main_df) /\ pc' = "metrics"
    /\ UNCHANGED <<header, tables, df, range, main_df, daily_orders_df,
                   bystate_df, sum_freight_items_df, metrics, counters>>

\* lines 135-141: the two headline metrics (before currency formatting)
HeadlineMetrics ==
    /\ pc = "metrics"
    /\ total_orders' = SumCol(daily_orders_df, "order_count")
    /\ total_revenue' = SumCol(daily_orders_df, "revenue")
    /\ pc' = "freight"
    /\ UNCHANGED <<header, tables, df, range, main_df, rollups, counters>>

\* line 155
CreateSumFreightItems ==
    /\ pc = "freight"
    /\ sum_freight_items_df' \in create_sum_freight_items_df(main_df)
    /\ pc' = "status"
    /\ UNCHANGED <<header, tables, df, range, main_df, daily_orders_df,
                   bystate_df, rfm_df, metrics, counters>>

\* line 205 (line 52 of plot_order_status_distribution)
PlotOrderStatus ==
    /\ pc = "status"
    /\ order_status_counts' = OrderStatusCounts(main_df)
    /\ pc' = "payment"
    /\ UNCHANGED <<header, tables, df, range, main_df, rollups, metrics,
                   payment_type_counts>>

\* line 209 (line 69 of plot_payment_type_distribution)
PlotPaymentType ==
    /\ pc = "payment"
    /\ payment_type_counts' = PaymentTypeCounts(main_df)
    /\ pc' = "done"
    /\ UNCHANGED <<header, tables, df, range, main_df, rollups, metrics,
                   order_status_counts>>

Next ==
    \/ DeriveTotal
    \/ DateBounds
    \/ DateInput
    \/ ApplyFilter
    \/ CreateDailyOrders
    \/ CreateBystate
    \/ CreateRfm
    \/ HeadlineMetrics
    \/ CreateSumFreightItems
    \/ PlotOrderStatus
    \/ PlotPaymentType

Init == CoreInit(OrderRows)
InitAmounts == CoreInit(AmountRows)
InitCustomers == CoreInit(CustomerRows)
InitProducts == CoreInit(ProductRows)

Spec == Init /\ [][Next]_vars
RevenueSpec == InitAmounts /\ [][Next]_vars
RfmSpec == InitCustomers /\ [][Next]_vars
FreightSpec == InitProducts /\ [][Next]_vars

\* ----------------------------------------------------- stages of the run
Filtered == pc \in {"daily", "bystate", "rfm", "metrics", "freight",
                    "status", "payment", "done"}
DailyDone == pc \in {"bystate", "rfm", "metrics", "freight", "status",
                     "payment", "done"}
RfmDone == pc \in {"metrics", "freight", "status", "payment", "done"}
MetricsDone == pc \in {"freight", "status", "payment", "done"}
FreightDone == pc \in {"status", "payment", "done"}

\* ------------------------------------------------- vocabulary of the claims
\* The calendar day of a timestamp, stated by the day's bounds.
DayOf(ts) == CHOOSE d \in 0..ts : Midnight(d) <= ts /\ ts < Midnight(d + 1)

PurchaseDays(rows) == {DayOf(t) : t \in Column(rows, "order_purchase_timestamp")}

FirstActiveDay(rows) == The({d \in PurchaseDays(rows) : \A x \in PurchaseDays(rows) : d <= x})
LastActiveDay(rows) == The({d \in PurchaseDays(rows) : \A x \in PurchaseDays(rows) : x <= d})

RangeChosen == pc \notin {"derive", "bounds", "date_input", "greeting",
                          "progress", "read_csv", "to_datetime"}

ValidRange ==
    /\ start_date <= end_date
    /\ min_date <= start_date
    /\ end_date <= max_date

NoRowOn(rows, d) ==
    \A j \in DOMAIN rows : DayOf(rows[j].order_purchase_timestamp) # d

\* ------------------------------------------------------------------- C1
\* C1 as claimed: for a filter range of N calendar days the daily rollup has
\* exactly N entries, one per day of the range in ascending order, with
\* order_count = 0 and revenue = 0 on every day without rows, the days at the
\* start and the end of the range included.
C1_ZeroFillOverFilterRange ==
    (DailyDone /\ ValidRange) =>
        /\ Len(daily_orders_df) = end_date - start_date + 1
        /\ \A i \in DOMAIN daily_orders_df :
              /\ daily_orders_df[i].order_purchase_timestamp
                    = Midnight(start_date + i - 1)
              /\ NoRowOn(main_df, start_date + i - 1) =>
                    /\ daily_orders_df[i].order_count = 0
                    /\ daily_orders_df[i].revenue = 0

\* C1 amended: the daily rollup has one entry per calendar day from the
\* earliest to the latest purchase day present in the working set (a span
\* inside the filter range), in ascending order, with order_count = 0 and
\* revenue = 0 on each day of that span without rows; an empty working set
\* gives no entries.
C1_ZeroFillOverActiveSpan ==
    (DailyDone /\ ValidRange) =>
        IF main_df = <<>>
        THEN daily_orders_df = <<>>
        ELSE /\ start_date <= FirstActiveDay(main_df)
             /\ LastActiveDay(main_df) <= end_date
             /\ Len(daily_orders_df)
                   = LastActiveDay(main_df) - FirstActiveDay(main_df) + 1
             /\ \A i \in DOMAIN daily_orders_df :
                   /\ daily_orders_df[i].order_purchase_timestamp
                         = Midnight(FirstActiveDay(main_df) + i - 1)
                   /\ NoRowOn(main_df, FirstActiveDay(main_df) + i - 1) =>
                         /\ daily_orders_df[i].order_count = 0
                         /\ daily_orders_df[i].revenue = 0

\* A rollup with a zero-filled day between two days that have orders.
C1_Witness ==
    /\ DailyDone /\ ValidRange
    /\ Len(daily_orders_df) >= 3
    /\ \E i \in DOMAIN daily_orders_df :
          /\ 1 < i /\ i < Len(daily_orders_df)
          /\ daily_orders_df[i].order_count = 0
          /\ daily_orders_df[i].revenue = 0

\* ------------------------------------------------------------------- C2
\* C2: an invalid filter range (start_date > end_date, or a bound outside
\* the dataset's date span) is rejected before the filter is applied: the
\* run does not get past the filter statement, so no aggregator is invoked.
C2_InvalidRangeRejected ==
    (RangeChosen /\ ~ValidRange) => pc \in {"filter", "aborted"}

CustomerDays(rows, c) ==
    {DayOf(rows[j].order_purchase_timestamp) :
        j \in {k \in DOMAIN rows : rows[k].customer_unique_id = c}}

\* C4: on a non-empty working set every customer's recency is an integer
\* >= 0, the day difference between the latest purchase day of the working
\* set and the customer's own latest purchase day, and some customer has
\* recency 0.
C4_RecencyFloor ==
    (RfmDone /\ main_df # <<>>) =>
        /\ \A i \in DOMAIN rfm_df :
              /\ rfm_df[i].recency \in Nat
              /\ rfm_df[i].recency
                    = LastActiveDay(main_df)
                      - The(MaxOf(CustomerDays(main_df, rfm_df[i].customer_id)))
        /\ \E i \in DOMAIN rfm_df : rfm_df[i].recency = 0

\* Two customers, one of whom last purchased before the last active day.
C4_Witness ==
    /\ RfmDone
    /\ Len(rfm_df) >= 2
    /\ \E i \in DOMAIN rfm_df : rfm_df[i].recency > 0
    /\ \E i \in DOMAIN rfm_df : rfm_df[i].recency = 0

\* ------------------------------------------------------------------- C5
\* C5: the revenue summed over the daily rollup (the "Total Revenue" metric
\* before formatting) equals total_price summed over the working set.
C5_RevenueConservation ==
    /\ DailyDone => SumCol(daily_orders_df, "revenue") = SumCol(main_df, "total_price")
    /\ MetricsDone => total_revenue = SumCol(main_df, "total_price")

\* A rollup over several days whose rows differ in total_price.
C5_Witness ==
    /\ MetricsDone
    /\ Len(daily_orders_df) >= 2
    /\ \E i, j \in DOMAIN main_df :
          main_df[i].total_price # main_df[j].total_price
    /\ total_revenue = SumCol(main_df, "total_price")
    /\ total_revenue > 0

\* ------------------------------------------------------------------- C6
CustomerRowIndexes(rows, c) ==
    {k \in DOMAIN rows : rows[k].customer_unique_id = c}

\* C6: the RFM table has exactly one row per distinct customer_unique_id of
\* the working set; a customer with k rows over m distinct orders has
\* frequency m and monetary the sum of total_price over the k rows.
C6_OneRowPerCustomer ==
    RfmDone =>
        /\ {rfm_df[i].customer_id : i \in DOMAIN rfm_df}
              = {main_df[j].customer_unique_id : j \in DOMAIN main_df}
        /\ \A i, j \in DOMAIN rfm_df :
              rfm_df[i].customer_id = rfm_df[j].customer_id => i = j
        /\ \A i \in DOMAIN rfm_df :
              LET mine == CustomerRowIndexes(main_df, rfm_df[i].customer_id) IN
              /\ rfm_df[i].frequency
                    = Cardinality({main_df[k].order_id : k \in mine})
              /\ rfm_df[i].monetary
                    = SumCol(SelectSeq(main_df,
                                LAMBDA r : r.customer_unique_id
                                              = rfm_df[i].customer_id),
                             "total_price")

\* A customer with two rows of one order: frequency 1, not 2.
C6_Witness ==
    /\ RfmDone
    /\ \E i \in DOMAIN rfm_df :
          /\ Cardinality(CustomerRowIndexes(main_df, rfm_df[i].customer_id)) = 2
          /\ rfm_df[i].frequency = 1
          /\ rfm_df[i].monetary
                = main_df[1].total_price + main_df[2].total_price

\* ------------------------------------------------------------------- C7
FirstSeen(rows, p) ==
    The(MinOf({k \in DOMAIN rows : rows[k].product_id = p}))

OnePerProduct(rows, out) ==
    /\ {out[i].product_id : i \in DOMAIN out} = Column(rows, "product_id")
    /\ Len(out) = Cardinality(Column(rows, "product_id"))
    /\ \A i \in DOMAIN out :
          out[i].freight_value
             = SumCol(SelectSeq(rows, LAMBDA r : r.product_id = out[i].product_id),
                      "freight_value")

\* C7 as claimed: one entry per distinct product_id with its summed freight,
\* untruncated, non-increasing, and among equal sums the product first
\* encountered in the input rows first.
C7_StableFirstEncountered ==
    FreightDone =>
        /\ OnePerProduct(main_df, sum_freight_items_df)
        /\ NonIncreasing(sum_freight_items_df)
        /\ \A i, j \in DOMAIN sum_freight_items_df :
              (i < j /\ sum_freight_items_df[i].freight_value
                           = sum_freight_items_df[j].freight_value) =>
                 FirstSeen(main_df, sum_freight_items_df[i].product_id)
                    < FirstSeen(main_df, sum_freight_items_df[j].product_id)

\* C7 amended: one entry per distinct product_id with its summed freight,
\* untruncated, in an order where the summed freight is non-increasing; the
\* order among products with equal sums is not determined by the order of
\* first encounter.
C7_NonIncreasingUntruncated ==
    FreightDone =>
        /\ OnePerProduct(main_df, sum_freight_items_df)
        /\ \A i, j \in DOMAIN sum_freight_items_df :
              i < j => sum_freight_items_df[i].freight_value
                          >= sum_freight_items_df[j].freight_value

\* Two products with different sums, the larger one met second.
C7_Witness ==
    /\ FreightDone
    /\ Len(sum_freight_items_df) >= 2
    /\ sum_freight_items_df[1].freight_value > sum_freight_items_df[2].freight_value
    /\ FirstSeen(main_df, sum_freight_items_df[1].product_id)
          > FirstSeen(main_df, sum_freight_items_df[2].product_id)

\* ------------------------------------------------------------------- C8
InRange(r, s, e) ==
    /\ Midnight(s) <= r.order_purchase_timestamp
    /\ r.order_purchase_timestamp < Midnight(e + 1)

\* C8: for start_date <= end_date the filter step makes main_df exactly the
\* rows of df whose purchase day d has start_date <= d <= end_date (both
\* inclusive, time of day ignored), and leaves df as it was.
C8_InclusiveFilter ==
    [][(pc = "filter" /\ start_date <= end_date) =>
          /\ main_df' = SelectSeq(df, LAMBDA r : InRange(r, start_date, end_date))
          /\ df' = df]_vars

\* The filter kept a row purchased after midnight on end_date and dropped
\* another row.
C8_Witness ==
    /\ Filtered
    /\ start_date <= end_date
    /\ Len(main_df) < Len(df)
    /\ \E i \in DOMAIN main_df :
          main_df[i].order_purchase_timestamp > Midnight(end_date)

\* ------------------------------------------------------------------- C9
\* C9: on a well-formed input file the script ingests the dataset, applies
\* the date filter and then runs every aggregator; it does not abort.
C9_ScriptDoesNotAbort == pc # "aborted"

\* ------------------------------------------------------------------ C10
\* C10 as claimed: the "Total orders" metric equals the number of distinct
\* order_id values of the working set, whatever day buckets an order's rows
\* fall in.
C10_TotalOrdersDistinctOverall ==
    MetricsDone => total_orders = Cardinality(Column(main_df, "order_id"))

OrderDays(rows) ==
    {<<DayOf(rows[j].order_purchase_timestamp), rows[j].order_id>> :
        j \in DOMAIN rows}

OneDayPerOrder(rows) ==
    \A i, j \in DOMAIN rows :
        rows[i].order_id = rows[j].order_id =>
            DayOf(rows[i].order_purchase_timestamp)
               = DayOf(rows[j].order_purchase_timestamp)

\* C10 amended: the "Total orders" metric counts an order once per purchase
\* day it has rows on (several rows of an order on one day count once); it
\* equals the number of distinct order_id values when every order's rows
\* share one purchase day.
C10_TotalOrdersDistinctPerDay ==
    MetricsDone =>
        /\ total_orders = Cardinality(OrderDays(main_df))
        /\ OneDayPerOrder(main_df) =>
              total_orders = Cardinality(Column(main_df, "order_id"))

\* Two rows of one order on one day, counted once.
C10_Witness ==
    /\ MetricsDone
    /\ Len(main_df) = 2
    /\ main_df[1].order_id = main_df[2].order_id
    /\ OneDayPerOrder(main_df)
    /\ total_orders = 1

====
